---- MODULE Spec2Model ----
(***************************************************************************)
(* koa-middleware: useReturnValue, setErrorResponse, logError,             *)
(* errorHandler and requestProfiler of src/index.js, as a state machine    *)
(* over one request context at a time.                                     *)
(***************************************************************************)
EXTENDS Integers, Sequences, FiniteSets, TLC

VARIABLES
  ctx,    \* the request context of the running request
  chain,  \* the stages of the pipeline, outermost first
  deps,   \* the dependencies the stages were made with
  depth,  \* the stage that is running; Len(chain) + 1 is what lies downstream
  pc,     \* where the running stage is
  exc,    \* the value being thrown, NoExc when none
  calls,  \* the calls of callbacks and continuations, in order
  logs,   \* the logger calls, in order
  op,     \* what the caller invoked
  inp     \* the inputs of the invocation

vars == <<ctx, chain, deps, depth, pc, exc, calls, logs, op, inp>>

(***************************************************************************)
(* JavaScript values.  A value is a record [t, n, s]: t is the result of   *)
(* typeof (with "null" kept apart from "object"), n the number, s the      *)
(* string or, for an object, the name of the object.  The properties of    *)
(* the objects the inputs are built from are given by ObjProps.            *)
(***************************************************************************)
Undef == [t |-> "undefined", n |-> 0, s |-> ""]
Null == [t |-> "null", n |-> 0, s |-> ""]
Absent == [t |-> "absent", n |-> 0, s |-> ""]
Num(k) == [t |-> "number", n |-> k, s |-> ""]
Str(x) == [t |-> "string", n |-> 0, s |-> x]
Bool(b) == [t |-> "boolean", n |-> IF b THEN 1 ELSE 0, s |-> ""]
Obj(id) == [t |-> "object", n |-> 0, s |-> id]

Keys == {"message", "errorCode", "traceId", "prop", "a"}

NoProps == [k \in Keys |-> Absent]

\* The object literals the inputs use, by name.
ObjProps(id) ==
  CASE id = "extra" -> [NoProps EXCEPT !["prop"] = Str("additional prop")]
    [] id = "clash" -> [NoProps EXCEPT !["message"] = Str("inner"),
                                       !["errorCode"] = Num(9),
                                       !["traceId"] = Str("other"),
                                       !["prop"] = Str("additional prop")]
    [] id = "wrapped" -> [NoProps EXCEPT !["message"] = Str("inner")]
    [] id = "nested" -> [NoProps EXCEPT !["message"] = Obj("wrapped")]
    [] id = "payload" -> [NoProps EXCEPT !["a"] = Num(1)]
    [] OTHER -> NoProps

\* ToBoolean
Truthy(v) ==
  CASE v.t = "undefined" -> FALSE
    [] v.t = "null" -> FALSE
    [] v.t = "boolean" -> v.n = 1
    [] v.t = "number" -> v.n # 0
    [] v.t = "string" -> v.s # ""
    [] OTHER -> TRUE

\* a || b
Or(a, b) == IF Truthy(a) THEN a ELSE b

\* v.k for a value v that is neither null nor undefined
Get(v, k) ==
  IF v.t = "object" /\ ObjProps(v.s)[k] # Absent THEN ObjProps(v.s)[k] ELSE Undef

\* ToNumber(v) is NaN: undefined, an object of the inputs, a string that is no
\* numeral (the only numeral among the strings of the inputs is the empty one)
IsNaN(v) == v.t \in {"undefined", "object"} \/ (v.t = "string" /\ v.s # "")

\* ToNumber(v) where it is a number
ToNumber(v) == IF v.t \in {"number", "boolean"} THEN v.n ELSE 0

\* v >= k: false whenever ToNumber(v) is NaN
GreaterOrEqual(v, k) == ~IsNaN(v) /\ ToNumber(v) >= k

\* { ...v }: the own enumerable properties of v, none for a primitive
Spread(v) == IF v.t = "object" THEN ObjProps(v.s) ELSE NoProps

(***************************************************************************)
(* Values raised by a continuation or handed to a helper.  t tells an      *)
(* object from the values a throw or a rejection can also carry; the       *)
(* other fields are the properties the code reads (undefined when not      *)
(* set).                                                                   *)
(***************************************************************************)
NoExc == [t |-> "none", message |-> Undef, statusCode |-> Undef, status |-> Undef,
          code |-> Undef, error |-> Undef, body |-> Undef, stack |-> Undef]

Raised(kind) == [NoExc EXCEPT !.t = kind]

\* The TypeError of a property read on undefined or null
TypeErr == [NoExc EXCEPT !.t = "object", !.message = Str("Cannot read properties"),
                         !.stack = Str("TypeError stack")]

\* What a failing instrumentation callback raises
InstrErr == [NoExc EXCEPT !.t = "object", !.message = Str("instrumentation failed"),
                          !.stack = Str("Error stack")]

Nullish(e) == e.t \in {"null", "undefined"}

StatusCodes == {Undef, Num(0), Num(399), Num(400), Num(500)}
Messages == {Undef, Str(""), Str("boom")}
Codes == {Undef, Num(0), Num(7)}
Bodies == {Undef, Obj("extra"), Obj("clash")}

\* Failure objects downstream code raises into the error stage
Failures ==
  { [NoExc EXCEPT !.t = "object", !.message = m, !.statusCode = sc, !.status = st,
                  !.code = c, !.body = b, !.stack = Str("stack trace")] :
      m \in Messages, sc \in StatusCodes, st \in {Undef, Num(404)},
      c \in Codes, b \in Bodies }

\* Everything a continuation can raise: a failure object, or a bare value
RaisedValues == Failures \cup {Raised("null"), Raised("undefined"), Raised("string")}

\* Failure objects handed to setErrorResponse
FormatFailures ==
  { [NoExc EXCEPT !.t = "object", !.message = m, !.statusCode = sc, !.status = st,
                  !.code = c, !.error = er, !.body = b, !.stack = Str("stack trace")] :
      m \in {Undef, Str("boom")}, sc \in {Undef, Num(0), Num(400)},
      st \in {Undef, Num(404)}, c \in {Undef, Num(7)},
      er \in {Undef, Str(""), Str("bad"), Obj("wrapped"), Obj("extra"), Obj("nested")},
      b \in {Undef, Obj("extra"), Obj("wrapped")} }

\* What a handler wrapped by useReturnValue resolves with
Responses == {Undef, Null, Bool(FALSE), Num(0), Str(""), Str("text response"),
              Obj("payload")}

(***************************************************************************)
(* The request context: ctx.status, ctx.body, ctx.state.traceId,           *)
(* ctx.state.logger (present or not), ctx.state.timing and the header      *)
(* ctx.set writes.  body = Obj("literal") is an object literal built by    *)
(* the code, whose properties are in fresh.                                *)
(***************************************************************************)
NewCtx == [status |-> Undef, body |-> Undef, fresh |-> NoProps, traceId |-> Undef,
           hasLogger |-> TRUE, start |-> Undef, duration |-> Undef,
           header |-> Undef]

\* Contexts the server hands to a pipeline
Contexts ==
  { [NewCtx EXCEPT !.status = sb[1], !.body = sb[2], !.traceId = tr, !.hasLogger = lg] :
      sb \in {<<Undef, Undef>>, <<Num(404), Str("Not Found")>>},
      tr \in {Undef, Str("mock-trace-id")}, lg \in BOOLEAN }

\* Contexts of the profiler's tests: mockCtx(status)
ProfiledContexts ==
  { [NewCtx EXCEPT !.status = st, !.hasLogger = lg] :
      st \in {Undef, Null, Num(200), Num(399), Num(400), Num(500), Str("abc")},
      lg \in BOOLEAN }

DefaultDeps == [getTraceId |-> "default", instrumentation |-> "logError",
                callbacks |-> "default"]

\* The upper bound of the elapsed time process.hrtime reports, in ticks
MaxTicks == 2

NS_PER_SEC == 1000000000

\* A call of a callback or continuation: by is the stage that made it, st, bd
\* and fresh are ctx.status and ctx.body at the call, e, a3 and a4 the
\* arguments besides ctx
Call(fn, by, c, e, a3, a4) ==
  [fn |-> fn, by |-> by, st |-> c.status, bd |-> c.body, fresh |-> c.fresh,
   e |-> e, a3 |-> a3, a4 |-> a4]

\* A logger call: sink is the logger it went to (that of ctx.state, or the one
\* passed as an argument), fields the structured fields, msg the text
LogEntry(sink, level, fields, msg) ==
  [sink |-> sink, level |-> level, fields |-> fields, msg |-> msg]

NoFields == [kind |-> "none", errorCode |-> Undef, statusCode |-> Undef,
             status |-> Undef, elapsed |-> Undef]

(***************************************************************************)
(* useReturnValue                                                          *)
(***************************************************************************)
\* As UseReturnValueCtx, testing the response for truth instead of for undefined
UseReturnValueCtxTruthy(c, response) ==
  IF Truthy(response)
    THEN [c EXCEPT !.status = Num(200), !.body = response, !.fresh = NoProps]
    ELSE [c EXCEPT !.status = Num(204)]

\* ctx after the stage has looked at the handler's response
UseReturnValueCtx(c, response) ==
  IF response.t # "undefined"
    THEN [c EXCEPT !.status = Num(200), !.body = response, !.fresh = NoProps]
    ELSE [c EXCEPT !.status = Num(204)]

(***************************************************************************)
(* setErrorResponse                                                        *)
(***************************************************************************)
FormatMessage(e) == Or(Or(Or(e.error, e.body), e.message), Str("Internal server error"))

\* As FormatStatus, with status read before statusCode
FormatStatusSwapped(e) == Or(Or(Or(e.status, e.statusCode), e.code), Num(500))

FormatStatus(e) == Or(Or(Or(e.statusCode, e.status), e.code), Num(500))

\* As Unwrap, without the unwrapping
UnwrapNever(message) == message

\* prevent nesting of "message" prop
Unwrap(message) ==
  IF message.t = "object" /\ Truthy(Get(message, "message"))
    THEN Get(message, "message")
    ELSE message

SetErrorResponseCtx(e, c) ==
  [c EXCEPT !.status = FormatStatus(e),
            !.body = Obj("literal"),
            !.fresh = [NoProps EXCEPT !["message"] = Unwrap(FormatMessage(e))]]

\* The calls on the logger passed in; the disabled logger records nothing
SetErrorResponseLogs(e, logger) ==
  IF logger = "disabled"
    THEN <<>>
    ELSE << LogEntry("arg", "error", NoFields, e.message),
            LogEntry("arg", "debug", NoFields, e.stack) >>

(***************************************************************************)
(* logError                                                                *)
(***************************************************************************)
\* As LogErrorEntries, logging the stack only above 500
LogErrorEntriesAbove(e, statusCode, errorCode) ==
  << LogEntry("ctx", "error",
              [NoFields EXCEPT !.kind = "error", !.errorCode = errorCode,
                               !.statusCode = statusCode],
              e.message) >>
  \o (IF GreaterOrEqual(statusCode, 501)
        THEN << LogEntry("ctx", "error", NoFields, e.stack) >>
        ELSE <<>>)

LogErrorEntries(e, statusCode, errorCode) ==
  << LogEntry("ctx", "error",
              [NoFields EXCEPT !.kind = "error", !.errorCode = errorCode,
                               !.statusCode = statusCode],
              e.message) >>
  \o (IF GreaterOrEqual(statusCode, 500)
        THEN << LogEntry("ctx", "error", NoFields, e.stack) >>
        ELSE <<>>)

(***************************************************************************)
(* errorHandler                                                            *)
(***************************************************************************)
ErrorMessage(e) == Or(e.message, Str("Internal server error"))

\* As ErrorStatus, with the precedence of setErrorResponse
ErrorStatusAny(e) == Or(Or(Or(e.statusCode, e.status), e.code), Num(500))

ErrorStatus(e) == Or(e.statusCode, Num(500))

ErrorCode(e) == Or(e.code, Num(0))

\* getTraceId(ctx): ctx => ctx.state.traceId unless the caller passes its own
GetTraceId(c, d) ==
  IF d.getTraceId = "default" THEN c.traceId ELSE Str("returned-trace-id")

\* { ...e.body, message, errorCode, traceId }
ErrorBody(e, c, d) ==
  [Spread(e.body) EXCEPT !["message"] = ErrorMessage(e),
                         !["errorCode"] = ErrorCode(e),
                         !["traceId"] = GetTraceId(c, d)]

\* As ErrorHandlerCtx, leaving ctx.status as it was
ErrorHandlerCtxNoStatus(e, c, d) ==
  [c EXCEPT !.body = Obj("literal"), !.fresh = ErrorBody(e, c, d)]

ErrorHandlerCtx(e, c, d) ==
  [c EXCEPT !.status = ErrorStatus(e), !.body = Obj("literal"),
            !.fresh = ErrorBody(e, c, d)]

(***************************************************************************)
(* requestProfiler                                                         *)
(***************************************************************************)
\* Number(((diff[0] * NS_PER_SEC + diff[1]) / 1000000).toFixed(2)), as hundredths
\* of a millisecond: toFixed(2) rounds to the nearest hundredth
Duration(sec, ns) == ((sec * NS_PER_SEC + ns) + 5000) \div 10000

\* As Outcome, with > for >=
OutcomeAbove(c) ==
  IF GreaterOrEqual(c.status, 401) THEN "requestFailed" ELSE "requestSucceeded"

\* if (ctx.status >= 400) requestFailed else requestSucceeded
Outcome(c) ==
  IF GreaterOrEqual(c.status, 400) THEN "requestFailed" ELSE "requestSucceeded"

(***************************************************************************)
(* The state machine.  A pipeline is a chain of stages over a continuation *)
(* that completes or raises; each stage runs up to its next await in one   *)
(* step.                                                                   *)
(***************************************************************************)
NoInput == [ctx0 |-> NewCtx, failure |-> NoExc, response |-> Absent,
            statusCode |-> Undef, errorCode |-> Undef, logger |-> "disabled"]

Requests ==
  { <<ch, c, DefaultDeps>> :
      ch \in {<<"useReturnValue">>},
      c \in {x \in Contexts : x.hasLogger /\ x.traceId = Undef} }
  \cup
  { <<ch, c, [DefaultDeps EXCEPT !.getTraceId = g, !.instrumentation = i]>> :
      ch \in {<<"errorHandler">>}, c \in Contexts,
      g \in {"default", "custom"}, i \in {"logError", "custom", "failing"} }
  \cup
  { <<ch, c, [DefaultDeps EXCEPT !.callbacks = cb]>> :
      ch \in {<<"requestProfiler">>}, c \in ProfiledContexts,
      cb \in {"default", "custom"} }
  \cup
  { <<ch, c, [DefaultDeps EXCEPT !.instrumentation = i, !.callbacks = cb]>> :
      ch \in {<<"requestProfiler", "errorHandler">>}, c \in Contexts,
      i \in {"logError", "custom", "failing"}, cb \in {"default", "custom"} }

Init ==
  /\ ctx = NewCtx
  /\ chain = <<>>
  /\ deps = DefaultDeps
  /\ depth = 0
  /\ pc = "idle"
  /\ exc = NoExc
  /\ calls = <<>>
  /\ logs = <<>>
  /\ op = "none"
  /\ inp = NoInput

Ready == pc = "idle"

Running(stage, at) ==
  /\ op = "pipeline"
  /\ depth \in 1..Len(chain)
  /\ chain[depth] = stage
  /\ pc = at

\* The running stage settles: its caller resumes, or the pipeline is done
Settle(how) ==
  IF depth = 1
    THEN pc' = "done" /\ depth' = 0
    ELSE pc' = how /\ depth' = depth - 1

\* The server runs a pipeline on a context
Invoke(req) ==
  /\ Ready
  /\ chain' = req[1]
  /\ ctx' = req[2]
  /\ deps' = req[3]
  /\ depth' = 1
  /\ pc' = "call"
  /\ exc' = NoExc
  /\ calls' = <<>>
  /\ logs' = <<>>
  /\ op' = "pipeline"
  /\ inp' = [NoInput EXCEPT !.ctx0 = req[2]]

\* The server has answered the request and drops its context
Respond ==
  /\ pc = "done"
  /\ ctx' = NewCtx
  /\ chain' = <<>>
  /\ deps' = DefaultDeps
  /\ depth' = 0
  /\ pc' = "idle"
  /\ exc' = NoExc
  /\ calls' = <<>>
  /\ logs' = <<>>
  /\ op' = "none"
  /\ inp' = NoInput

\* Control is with what lies downstream of the last stage
AtDownstream == op = "pipeline" /\ pc = "call" /\ depth = Len(chain) + 1

\* What lies downstream of the last stage completes
DownstreamCompletes ==
  /\ AtDownstream
  /\ pc' = "return"
  /\ depth' = depth - 1
  /\ UNCHANGED <<ctx, chain, deps, exc, calls, logs, op, inp>>

\* What lies downstream of the last stage raises e
DownstreamRaises(e) ==
  /\ AtDownstream
  /\ exc' = e
  /\ inp' = [inp EXCEPT !.failure = e]
  /\ pc' = "throw"
  /\ depth' = depth - 1
  /\ UNCHANGED <<ctx, chain, deps, calls, logs, op>>

\* useReturnValue: fn(ctx) is called and awaited
URV_CallFn ==
  /\ Running("useReturnValue", "call")
  /\ calls' = Append(calls, Call("fn", "useReturnValue", ctx, NoExc, Undef, Undef))
  /\ pc' = "await_fn"
  /\ UNCHANGED <<ctx, chain, deps, depth, exc, logs, op, inp>>

\* useReturnValue: fn resolved with response; status and body are set and
\* next() is called
URV_FnResolves(response) ==
  /\ Running("useReturnValue", "await_fn")
  /\ ctx' = UseReturnValueCtx(ctx, response)
  /\ calls' = Append(calls, Call("next", "useReturnValue", ctx', NoExc, Undef, Undef))
  /\ inp' = [inp EXCEPT !.response = response]
  /\ depth' = depth + 1
  /\ pc' = "call"
  /\ UNCHANGED <<chain, deps, exc, logs, op>>

\* useReturnValue: fn rejected; nothing catches it
URV_FnRejects(e) ==
  /\ Running("useReturnValue", "await_fn")
  /\ exc' = e
  /\ inp' = [inp EXCEPT !.failure = e]
  /\ Settle("throw")
  /\ UNCHANGED <<ctx, chain, deps, calls, logs, op>>

\* useReturnValue: return next() settles as next() did
URV_Settle ==
  /\ \/ Running("useReturnValue", "return")
     \/ Running("useReturnValue", "throw")
  /\ Settle(pc)
  /\ UNCHANGED <<ctx, chain, deps, exc, calls, logs, op, inp>>

\* errorHandler: try { await next() }
EH_CallNext ==
  /\ Running("errorHandler", "call")
  /\ calls' = Append(calls, Call("next", "errorHandler", ctx, NoExc, Undef, Undef))
  /\ depth' = depth + 1
  /\ pc' = "call"
  /\ UNCHANGED <<ctx, chain, deps, exc, logs, op, inp>>

\* errorHandler: next() resolved, the try block ends
EH_Return ==
  /\ Running("errorHandler", "return")
  /\ Settle("return")
  /\ UNCHANGED <<ctx, chain, deps, exc, calls, logs, op, inp>>

\* As CatchCalls, calling the instrumentation before ctx is rewritten
CatchCallsEarly(e, c, d) ==
  (IF d.getTraceId = "custom"
     THEN << Call("getTraceId", "errorHandler", c, NoExc, Undef, Undef) >>
     ELSE <<>>)
  \o << Call("instrumentation", "errorHandler", c, e, ErrorStatus(e), ErrorCode(e)) >>

\* The calls the catch block makes: getTraceId when it is the caller's own,
\* then instrumentation(e, ctx, status, errorCode) on the rewritten ctx
CatchCalls(e, c, d) ==
  (IF d.getTraceId = "custom"
     THEN << Call("getTraceId", "errorHandler", c, NoExc, Undef, Undef) >>
     ELSE <<>>)
  \o << Call("instrumentation", "errorHandler", ErrorHandlerCtx(e, c, d), e,
             ErrorStatus(e), ErrorCode(e)) >>

\* errorHandler: catch (e), up to the await of the instrumentation
EH_Catch ==
  /\ Running("errorHandler", "throw")
  /\ IF Nullish(exc)
       THEN \* e.message of undefined or null throws
            /\ exc' = TypeErr
            /\ Settle("throw")
            /\ UNCHANGED <<ctx, calls, logs>>
       ELSE /\ ctx' = ErrorHandlerCtx(exc, ctx, deps)
            /\ calls' = calls \o CatchCalls(exc, ctx, deps)
            /\ IF deps.instrumentation = "logError" /\ ~ctx.hasLogger
                 THEN \* logError reads .error of an undefined logger
                      /\ exc' = TypeErr
                      /\ Settle("throw")
                      /\ UNCHANGED logs
                 ELSE /\ exc' = NoExc
                      /\ pc' = "await_instr"
                      /\ logs' = IF deps.instrumentation = "logError"
                                   THEN logs \o LogErrorEntries(exc, ErrorStatus(exc),
                                                                ErrorCode(exc))
                                   ELSE logs
                      /\ UNCHANGED depth
  /\ UNCHANGED <<chain, deps, op, inp>>

\* errorHandler: the awaited instrumentation completed
EH_InstrResolves ==
  /\ Running("errorHandler", "await_instr")
  /\ deps.instrumentation # "failing"
  /\ Settle("return")
  /\ UNCHANGED <<ctx, chain, deps, exc, calls, logs, op, inp>>

\* errorHandler: the awaited instrumentation failed; nothing catches it
EH_InstrRejects ==
  /\ Running("errorHandler", "await_instr")
  /\ deps.instrumentation = "failing"
  /\ exc' = InstrErr
  /\ Settle("throw")
  /\ UNCHANGED <<ctx, chain, deps, calls, logs, op, inp>>

\* The default requestStarted: a new timing record with the start marker
RequestStartedCtx(c, d) ==
  IF d.callbacks = "default"
    THEN [c EXCEPT !.start = Str("hrtime"), !.duration = Undef]
    ELSE c

\* The default requestFinished: the duration and the Server-Timing header
RequestFinishedCtx(c, d, sec, ns) ==
  IF d.callbacks = "default"
    THEN [c EXCEPT !.duration = Num(Duration(sec, ns)),
                   !.header = Num(Duration(sec, ns))]
    ELSE c

\* What the default outcome callbacks log
OutcomeLog(c) ==
  IF Outcome(c) = "requestFailed"
    THEN LogEntry("ctx", "warn",
                  [NoFields EXCEPT !.kind = "failed", !.status = c.status,
                                   !.elapsed = c.duration],
                  Str("finished with error"))
    ELSE LogEntry("ctx", "trace",
                  [NoFields EXCEPT !.kind = "succeeded", !.status = c.status,
                                   !.elapsed = c.duration],
                  Str("finished successfully"))

\* requestProfiler: requestStarted(ctx), then await next()
RP_Start ==
  /\ Running("requestProfiler", "call")
  /\ IF deps.callbacks = "default" /\ ~ctx.hasLogger
       THEN \* getLogger(ctx).trace of an undefined logger throws
            /\ calls' = Append(calls, Call("requestStarted", "requestProfiler", ctx,
                                           NoExc, Undef, Undef))
            /\ exc' = TypeErr
            /\ Settle("throw")
            /\ UNCHANGED <<ctx, logs>>
       ELSE /\ ctx' = RequestStartedCtx(ctx, deps)
            /\ calls' = calls \o
                 << Call("requestStarted", "requestProfiler", ctx, NoExc, Undef, Undef),
                    Call("next", "requestProfiler", ctx', NoExc, Undef, Undef) >>
            /\ logs' = IF deps.callbacks = "default"
                         THEN Append(logs, LogEntry("ctx", "trace", NoFields,
                                                    Str("starting")))
                         ELSE logs
            /\ depth' = depth + 1
            /\ pc' = "call"
            /\ UNCHANGED exc
  /\ UNCHANGED <<chain, deps, op, inp>>

\* As ResumeCalls, with the outcome callback before requestFinished
ResumeCallsSwapped(c, d, sec, ns) ==
  << Call(Outcome(c), "requestProfiler", c, NoExc, Undef, Undef),
     Call("requestFinished", "requestProfiler", c, NoExc, Undef, Undef) >>

\* The calls the profiler makes once next() has resolved
ResumeCalls(c, d, sec, ns) ==
  << Call("requestFinished", "requestProfiler", c, NoExc, Undef, Undef),
     Call(Outcome(RequestFinishedCtx(c, d, sec, ns)), "requestProfiler",
          RequestFinishedCtx(c, d, sec, ns), NoExc, Undef, Undef) >>

\* requestProfiler: next() resolved; requestFinished(ctx), then the outcome
\* callback.  ticks is the time process.hrtime(start) reports.
RP_Resume(ticks) ==
  /\ Running("requestProfiler", "return")
  /\ deps.callbacks = "custom" => ticks = 0
  /\ ctx' = RequestFinishedCtx(ctx, deps, 0, ticks * 4000)
  /\ calls' = calls \o ResumeCalls(ctx, deps, 0, ticks * 4000)
  /\ logs' = IF deps.callbacks = "default" THEN Append(logs, OutcomeLog(ctx')) ELSE logs
  /\ Settle("return")
  /\ UNCHANGED <<chain, deps, exc, op, inp>>

\* requestProfiler: next() rejected; nothing catches it
RP_Propagate ==
  /\ Running("requestProfiler", "throw")
  /\ Settle("throw")
  /\ UNCHANGED <<ctx, chain, deps, exc, calls, logs, op, inp>>

\* setErrorResponse(e, ctx, logger), with logger left out or passed
CallSetErrorResponse(e, c, logger) ==
  /\ Ready
  /\ ctx' = SetErrorResponseCtx(e, c)
  /\ logs' = SetErrorResponseLogs(e, logger)
  /\ op' = "setErrorResponse"
  /\ inp' = [NoInput EXCEPT !.ctx0 = c, !.failure = e, !.logger = logger]
  /\ pc' = "done"
  /\ exc' = NoExc
  /\ calls' = <<>>
  /\ chain' = <<>>
  /\ deps' = DefaultDeps
  /\ depth' = 0

LogErrorFailures ==
  { [NoExc EXCEPT !.t = "object", !.message = m, !.stack = s] :
      m \in {Undef, Str("An error message")},
      s \in {Undef, Str("error stack trace string")} }

LogErrorStatuses == {Undef, Num(123), Num(499), Num(500), Num(501)}

\* logError(e, ctx, statusCode, errorCode)
CallLogError(e, c, statusCode, errorCode) ==
  /\ Ready
  /\ ctx' = c
  /\ IF c.hasLogger
       THEN logs' = LogErrorEntries(e, statusCode, errorCode) /\ exc' = NoExc
       ELSE logs' = <<>> /\ exc' = TypeErr
  /\ op' = "logError"
  /\ inp' = [NoInput EXCEPT !.ctx0 = c, !.failure = e, !.statusCode = statusCode,
                            !.errorCode = errorCode]
  /\ pc' = "done"
  /\ calls' = <<>>
  /\ chain' = <<>>
  /\ deps' = DefaultDeps
  /\ depth' = 0

\* Every value downstream can raise
Raise == \E e \in RaisedValues : DownstreamRaises(e)

\* Every call of setErrorResponse
FormatError ==
  /\ Ready
  /\ \E e \in FormatFailures, c \in {x \in Contexts : x.hasLogger /\ x.traceId = Undef},
        lg \in {"disabled", "given"} : CallSetErrorResponse(e, c, lg)

\* Every call of logError
LogError ==
  /\ Ready
  /\ \E e \in LogErrorFailures, c \in {x \in Contexts : x.traceId = Undef},
        sc \in LogErrorStatuses, ec \in {Num(0), Num(456)} : CallLogError(e, c, sc, ec)

Next ==
  \/ Ready /\ \E req \in Requests : Invoke(req)
  \/ Respond
  \/ DownstreamCompletes
  \/ AtDownstream /\ Raise
  \/ URV_CallFn
  \/ \E r \in Responses : URV_FnResolves(r)
  \/ \E e \in {Raised("undefined"), TypeErr} : URV_FnRejects(e)
  \/ URV_Settle
  \/ EH_CallNext
  \/ EH_Return
  \/ EH_Catch
  \/ EH_InstrResolves
  \/ EH_InstrRejects
  \/ RP_Start
  \/ \E k \in 0..MaxTicks : RP_Resume(k)
  \/ RP_Propagate
  \/ FormatError
  \/ LogError

Spec == Init /\ [][Next]_vars

(***************************************************************************)
(* Properties                                                              *)
(***************************************************************************)
InChain(stage) == \E i \in DOMAIN chain : chain[i] = stage

Count(fn) == Cardinality({i \in DOMAIN calls : calls[i].fn = fn})

\* The names of the calls a stage made, in order
CallsBy(stage) ==
  LET made == SelectSeq(calls, LAMBDA x : x.by = stage)
  IN  [i \in DOMAIN made |-> made[i].fn]

\* v < k: false whenever ToNumber(v) is NaN
LessThan(v, k) == ~IsNaN(v) /\ ToNumber(v) < k

Finished == op = "pipeline" /\ pc = "done"

\* Downstream raised a failure whose properties can be read
FailureRaised == op = "pipeline" /\ inp.failure.t \in {"object", "string"}

FirstTruthy(a, b) == IF Truthy(a) THEN a ELSE b

\* The instrumentation callback does not fail
InstrumentationSound ==
  \/ deps.instrumentation = "custom"
  \/ deps.instrumentation = "logError" /\ inp.ctx0.hasLogger

\* C1: for every failure f raised by downstream, errorHandler leaves
\* ctx.status = f.statusCode if truthy and 500 otherwise (f.status and f.code
\* play no part), and ctx.body = the keys of f.body overlaid by message =
\* f.message or 'Internal server error', errorCode = f.code or 0, traceId =
\* getTraceId(ctx); the three computed keys win over f.body.
C1_ErrorResponse ==
  (Finished /\ InChain("errorHandler") /\ FailureRaised) =>
    LET f == inp.failure
    IN  /\ ctx.status = (IF Truthy(f.statusCode) THEN f.statusCode ELSE Num(500))
        /\ ctx.body = Obj("literal")
        /\ ctx.fresh["message"] =
             (IF Truthy(f.message) THEN f.message ELSE Str("Internal server error"))
        /\ ctx.fresh["errorCode"] = (IF Truthy(f.code) THEN f.code ELSE Num(0))
        /\ ctx.fresh["traceId"] =
             (IF deps.getTraceId = "default" THEN inp.ctx0.traceId
                                             ELSE Str("returned-trace-id"))
        /\ \A k \in Keys \ {"message", "errorCode", "traceId"} :
             ctx.fresh[k] = (IF f.body.t = "object" THEN ObjProps(f.body.s)[k] ELSE Absent)

\* A failure with status 404 and no statusCode, whose body sets all three
\* computed keys, has been answered with 500 and the computed message
C1_Witness ==
  /\ Finished /\ chain = <<"errorHandler">> /\ exc = NoExc
  /\ inp.failure.statusCode = Undef /\ inp.failure.status = Num(404)
  /\ inp.failure.code = Num(7)
  /\ inp.failure.body = Obj("clash")
  /\ ctx.status = Num(500)
  /\ ctx.fresh["message"] = Str("boom")
  /\ ctx.fresh["errorCode"] = Num(7)
  /\ ctx.fresh["prop"] = Str("additional prop")

\* C2: the stage of errorHandler never fails: for every value raised by
\* downstream, with ctx.state.logger present and an instrumentation that does
\* not fail, the stage completes normally.
C2_NeverFails ==
  (Finished /\ chain = <<"errorHandler">> /\ inp.failure # NoExc
     /\ inp.ctx0.hasLogger /\ deps.instrumentation # "failing")
    => exc = NoExc

\* C3: for every handler fn that completes, useReturnValue(fn) calls fn once
\* with ctx, sets status 204 and leaves the body for an undefined result, sets
\* status 200 and body = result for every other result, and calls next() once,
\* after the status has been set.
C3_ReturnValue ==
  (op = "pipeline" /\ chain = <<"useReturnValue">> /\ inp.response # Absent) =>
    LET r == inp.response
        status == IF r = Undef THEN Num(204) ELSE Num(200)
    IN  /\ CallsBy("useReturnValue") = <<"fn", "next">>
        /\ Len(calls) = 2
        /\ calls[1].st = inp.ctx0.status /\ calls[1].bd = inp.ctx0.body
        /\ calls[2].st = status
        /\ ctx.status = status
        /\ ctx.body = (IF r = Undef THEN inp.ctx0.body ELSE r)

\* null was returned on a context that had a body: 200 and a null body
C3_Witness ==
  /\ Finished /\ chain = <<"useReturnValue">> /\ exc = NoExc
  /\ inp.response = Null
  /\ inp.ctx0.body = Str("Not Found")
  /\ ctx.status = Num(200) /\ ctx.body = Null
  /\ Count("next") = 1

\* C4, as stated: in every invocation of the profiler's stage exactly one of
\* requestFailed and requestSucceeded is called, once: requestFailed iff
\* ctx.status >= 400 when downstream has finished, requestSucceeded iff
\* ctx.status < 400.  (Stated for contexts that carry a logger.)
C4_AsStated ==
  (Finished /\ chain = <<"requestProfiler">> /\ inp.ctx0.hasLogger) =>
    /\ Count("requestFailed") + Count("requestSucceeded") = 1
    /\ Count("requestFailed") = 1 <=> GreaterOrEqual(ctx.status, 400)
    /\ Count("requestSucceeded") = 1 <=> LessThan(ctx.status, 400)

\* C4, amended: when requestStarted and downstream complete, exactly one of the
\* two is called, once: requestFailed iff ctx.status >= 400, requestSucceeded
\* in every other case (a status that is no number included); when either
\* fails, neither is called.
C4_Outcome ==
  (Finished /\ chain = <<"requestProfiler">>) =>
    IF exc = NoExc
      THEN /\ Count("requestFailed") + Count("requestSucceeded") = 1
           /\ Count("requestFailed") = 1 <=> GreaterOrEqual(ctx.status, 400)
           /\ Count("requestSucceeded") = 1 <=> ~GreaterOrEqual(ctx.status, 400)
      ELSE Count("requestFailed") + Count("requestSucceeded") = 0

\* A request with no status set was classified as succeeded
C4_Witness ==
  /\ Finished /\ chain = <<"requestProfiler">> /\ exc = NoExc
  /\ ctx.status = Undef
  /\ Count("requestSucceeded") = 1 /\ Count("requestFailed") = 0

\* C5, as stated: the message setErrorResponse writes is never an object.
C5_AsStated ==
  (op = "setErrorResponse" /\ pc = "done") => ctx.fresh["message"].t # "object"

\* C5, amended: when the resolved message is an object with a truthy message
\* property, the body carries that property (one level is unwrapped, whatever
\* the property is); otherwise it carries the resolved message itself, which
\* is an object when the resolved message is an object without such a property.
C5_Unwrapped ==
  (op = "setErrorResponse" /\ pc = "done") =>
    LET e == inp.failure
        m == FirstTruthy(e.error, FirstTruthy(e.body,
               FirstTruthy(e.message, Str("Internal server error"))))
        inner == IF m.t = "object" THEN ObjProps(m.s)["message"] ELSE Absent
    IN  /\ (inner # Absent /\ Truthy(inner)) => ctx.fresh["message"] = inner
        /\ ~(inner # Absent /\ Truthy(inner)) => ctx.fresh["message"] = m
        /\ ctx.fresh["message"].t = "object" =>
             /\ m.t = "object"
             /\ inner = Absent \/ inner.t = "object"

\* e.error = {message: 'inner'} was answered with the message 'inner'
C5_Witness ==
  /\ op = "setErrorResponse" /\ pc = "done"
  /\ inp.failure.error = Obj("wrapped")
  /\ ctx.fresh["message"] = Str("inner")

\* C6: setErrorResponse(e, ctx) sets ctx.status to the first truthy of
\* e.statusCode, e.status, e.code, else 500; resolves the message as the first
\* truthy of e.error, e.body, e.message, else 'Internal server error'; the
\* body has the one key message; without a logger argument nothing is logged
\* and the call does not fail.
C6_Format ==
  (op = "setErrorResponse" /\ pc = "done") =>
    LET e == inp.failure
        m == FirstTruthy(e.error, FirstTruthy(e.body,
               FirstTruthy(e.message, Str("Internal server error"))))
    IN  /\ ctx.status = FirstTruthy(e.statusCode, FirstTruthy(e.status,
                          FirstTruthy(e.code, Num(500))))
        /\ ctx.body = Obj("literal")
        /\ ctx.fresh["message"] # Absent
        /\ m.t # "object" => ctx.fresh["message"] = m
        /\ m.t = "object" => ctx.fresh["message"] \in {m, ObjProps(m.s)["message"]}
        /\ \A k \in Keys \ {"message"} : ctx.fresh[k] = Absent
        /\ exc = NoExc
        /\ inp.logger = "disabled" => logs = <<>>

\* A failure with statusCode 0, status 404 and code 7, an empty error and a
\* body, formatted without a logger: 404 and the body as message
C6_Witness ==
  /\ op = "setErrorResponse" /\ pc = "done"
  /\ inp.logger = "disabled"
  /\ inp.failure.statusCode = Num(0) /\ inp.failure.status = Num(404)
  /\ inp.failure.code = Num(7)
  /\ inp.failure.error = Str("") /\ inp.failure.body = Obj("extra")
  /\ inp.failure.message = Str("boom")
  /\ ctx.status = Num(404)
  /\ ctx.fresh["message"] = Obj("extra")

\* The failure downstream raised has not reached the catch block yet
CatchPending ==
  /\ pc = "throw" /\ depth \in DOMAIN chain
  /\ chain[depth] = "errorHandler"

InstrumentationCalls == {i \in DOMAIN calls : calls[i].fn = "instrumentation"}

C7_State ==
  (op = "pipeline" /\ InChain("errorHandler")) =>
    /\ inp.failure = NoExc =>
         /\ InstrumentationCalls = {}
         /\ ctx.status = inp.ctx0.status /\ ctx.body = inp.ctx0.body
    /\ (FailureRaised /\ CatchPending) => InstrumentationCalls = {}
    /\ (FailureRaised /\ ~CatchPending) => Cardinality(InstrumentationCalls) = 1
    /\ \A i \in InstrumentationCalls :
         /\ calls[i].e = inp.failure
         /\ calls[i].st = ctx.status /\ calls[i].bd = ctx.body
         /\ calls[i].fresh = ctx.fresh
         /\ ctx.body = Obj("literal")
         /\ calls[i].st = FirstTruthy(inp.failure.statusCode, Num(500))
         /\ calls[i].a3 = ctx.status
         /\ calls[i].a4 = ctx.fresh["errorCode"]

C7_Step ==
  (/\ Len(calls') > Len(calls)
   /\ calls'[Len(calls')].fn = "instrumentation"
   /\ ~(deps.instrumentation = "logError" /\ ~ctx.hasLogger))
    => (pc' = "await_instr" /\ depth' = depth /\ chain[depth] = "errorHandler")

\* C7: errorHandler calls the instrumentation once for each failure downstream
\* raises and never when downstream completes (ctx.status and ctx.body then
\* stay as they were); the call comes after ctx.status and ctx.body have been
\* assigned, with (failure, ctx, the status written, the errorCode written),
\* and the stage is still awaiting it when the call has been made.
C7_Instrumentation == [](C7_State) /\ [][C7_Step]_vars

\* The stage awaits a custom instrumentation called with (f, ctx, 400, 7)
C7_Witness ==
  /\ op = "pipeline" /\ chain = <<"errorHandler">> /\ pc = "await_instr"
  /\ deps.instrumentation = "custom"
  /\ inp.failure.statusCode = Num(400) /\ inp.failure.code = Num(7)
  /\ inp.ctx0.status = Num(404)
  /\ ctx.status = Num(400)
  /\ \E i \in InstrumentationCalls : calls[i].a3 = Num(400) /\ calls[i].a4 = Num(7)

\* C8: when downstream completes, the profiler's calls are, in order and once
\* each: requestStarted, next, requestFinished, the outcome callback;
\* requestFinished is never called before downstream has finished.
C8_Order ==
  (op = "pipeline" /\ InChain("requestProfiler")) =>
    /\ depth >= 2 =>
         /\ CallsBy("requestProfiler") = <<"requestStarted", "next">>
         /\ Count("requestFinished") = 0
    /\ (Finished /\ exc = NoExc) =>
         \E o \in {"requestFailed", "requestSucceeded"} :
           CallsBy("requestProfiler") =
             <<"requestStarted", "next", "requestFinished", o>>
    /\ Count("requestFinished") > 0 => (Finished /\ exc = NoExc)

\* A request profiled with the default callbacks finished as failed, with a
\* duration on the context
C8_Witness ==
  /\ Finished /\ chain = <<"requestProfiler">> /\ exc = NoExc
  /\ deps.callbacks = "default"
  /\ ctx.duration = Num(1)
  /\ CallsBy("requestProfiler") =
       <<"requestStarted", "next", "requestFinished", "requestFailed">>

\* C9: logError calls ctx.state.logger.error once, with {errorCode, statusCode}
\* and e.message, when statusCode < 500, and twice when statusCode >= 500, the
\* second call carrying e.stack; no other level is called and ctx.status and
\* ctx.body do not change.
C9_LogError ==
  (op = "logError" /\ pc = "done" /\ inp.ctx0.hasLogger) =>
    /\ ctx.status = inp.ctx0.status /\ ctx.body = inp.ctx0.body
    /\ exc = NoExc
    /\ \A i \in DOMAIN logs : logs[i].level = "error" /\ logs[i].sink = "ctx"
    /\ Len(logs) >= 1
    /\ logs[1].fields.kind = "error"
    /\ logs[1].fields.errorCode = inp.errorCode
    /\ logs[1].fields.statusCode = inp.statusCode
    /\ logs[1].msg = inp.failure.message
    /\ LessThan(inp.statusCode, 500) => Len(logs) = 1
    /\ GreaterOrEqual(inp.statusCode, 500) =>
         /\ Len(logs) = 2
         /\ logs[2].fields = NoFields
         /\ logs[2].msg = inp.failure.stack

\* logError(e, ctx, 500, 456) logged the message and then the stack
C9_Witness ==
  /\ op = "logError" /\ pc = "done"
  /\ inp.statusCode = Num(500) /\ inp.errorCode = Num(456)
  /\ Len(logs) = 2
  /\ logs[1].msg = Str("An error message")
  /\ logs[2].msg = Str("error stack trace string")

\* C10: with requestProfiler outside errorHandler, for every failure f raised
\* downstream and an instrumentation that does not fail, the pipeline completes
\* without raising, ctx.status and ctx.body are set, requestFinished is called,
\* and requestFailed is called iff (f.statusCode or 500) >= 400,
\* requestSucceeded otherwise.
C10_Composed ==
  (/\ Finished /\ chain = <<"requestProfiler", "errorHandler">>
   /\ FailureRaised /\ InstrumentationSound) =>
    LET written == FirstTruthy(inp.failure.statusCode, Num(500))
    IN  /\ exc = NoExc
        /\ ctx.status # Undef /\ ctx.body # Undef
        /\ Count("requestFinished") = 1
        /\ Count("requestFailed") + Count("requestSucceeded") = 1
        /\ Count("requestFailed") = 1 <=> GreaterOrEqual(written, 400)
        /\ Count("requestSucceeded") = 1 <=> ~GreaterOrEqual(written, 400)

\* A failure with statusCode 399 on a context that stood at 404 was profiled
\* as succeeded
C10_Witness ==
  /\ Finished /\ chain = <<"requestProfiler", "errorHandler">> /\ exc = NoExc
  /\ inp.failure.statusCode = Num(399)
  /\ inp.ctx0.status = Num(404)
  /\ ctx.status = Num(399)
  /\ Count("requestFinished") = 1
  /\ Count("requestSucceeded") = 1

====
